---- MODULE Spec2Model ----
(***************************************************************************)
(* Model of src/rag_groq.py: the JSON-persisted profile store              *)
(* (UserContextDB) and the document / conversation facade (SimpleRAG).     *)
(***************************************************************************)
EXTENDS Integers, Sequences, FiniteSets, TLC

(* ------------------------------ bounds -------------------------------- *)
\* number of entries of a purchase history handed to _format_user_context
MaxHist == 5
\* number of calls explored on one users file, the construction of the
\* first store included
MaxOps == 3
\* number of documents held at once
MaxDocs == 3
\* number of conversation turns held at once
MaxTurns == 2

(* --------------------------- input domains ---------------------------- *)
Ids == {"u1", "u2"}
Names == {"Ann", "Bob"}
PrefLists == {<<"x", "y">>}
HistLists == {<<"a", "b", "c", "d">>}

\* An optional argument: some = FALSE is Python's None (argument omitted),
\* for a list and for a str.
None == [some |-> FALSE, v |-> <<>>]
NoStr == [some |-> FALSE, v |-> ""]
Some(x) == [some |-> TRUE, v |-> x]

\* the values passed to create_or_update_user: a name omitted, empty or
\* given, preferences empty or given, a purchase history omitted or given
NameArgs == {NoStr, Some("")} \cup {Some(n) : n \in Names}
PrefArgs == {Some(<<>>)} \cup {Some(l) : l \in PrefLists}
HistArgs == {None} \cup {Some(l) : l \in HistLists}

\* Python truthiness of an optional str / list argument.
TruthyStr(a) == a.some /\ a.v # ""
TruthyList(a) == a.some /\ a.v # <<>>

(* ------------------------- ordered dict helpers ----------------------- *)
\* self.users is a dict in insertion order: a sequence of [key, val] entries
\* with pairwise distinct keys.
Keys(d) == {d[i].key : i \in 1..Len(d)}
IndexOf(d, k) == CHOOSE i \in 1..Len(d) : d[i].key = k
Get(d, k) == d[IndexOf(d, k)].val
Put(d, k, v) ==
    IF k \in Keys(d)
    THEN [d EXCEPT ![IndexOf(d, k)] = [key |-> k, val |-> v]]
    ELSE Append(d, [key |-> k, val |-> v])
\* Del that also drops every entry behind the one it removes
Del_DropsTail(d, k) == SubSeq(d, 1, IndexOf(d, k) - 1)

Del(d, k) ==
    LET i == IndexOf(d, k)
    IN  SubSeq(d, 1, i - 1) \o SubSeq(d, i + 1, Len(d))

(* ------------------------------ JSON ---------------------------------- *)
\* The file is a sequence of JSON tokens (separators ',' and ':' and the
\* indentation carry no information and are left out).
P(c) == [t |-> "punct", v |-> c]
S(s) == [t |-> "str", v |-> s]

RECURSIVE Flatten(_)
Flatten(ss) == IF ss = <<>> THEN <<>> ELSE Head(ss) \o Flatten(Tail(ss))

DumpList(l) == <<P("[")>> \o [i \in 1..Len(l) |-> S(l[i])] \o <<P("]")>>

\* DumpProfile without the purchase_history member
DumpProfile_NoHistory(p) ==
    <<P("{")>>
    \o <<S("user_id"), S(p.user_id)>>
    \o <<S("name"), S(p.name)>>
    \o <<S("preferences")>> \o DumpList(p.preferences)
    \o <<P("}")>>

DumpProfile(p) ==
    <<P("{")>>
    \o <<S("user_id"), S(p.user_id)>>
    \o <<S("name"), S(p.name)>>
    \o <<S("preferences")>> \o DumpList(p.preferences)
    \o <<S("purchase_history")>> \o DumpList(p.purchase_history)
    \o <<P("}")>>

\* json.dump(self.users, f, indent=2)
JsonDump(d) ==
    <<P("{")>>
    \o Flatten([i \in 1..Len(d) |-> <<S(d[i].key)>> \o DumpProfile(d[i].val)])
    \o <<P("}")>>

\* json.load: a recursive-descent parser.  Each parser returns
\* [ok, val, next]: whether a value was read at position i, the value and
\* the position after it.
Fail == [ok |-> FALSE, val |-> <<>>, next |-> 0]

RECURSIVE ParseValue(_, _), ParseElems(_, _, _), ParseMembers(_, _, _)

ParseValue(toks, i) ==
    IF i > Len(toks) THEN Fail
    ELSE IF toks[i].t = "str" THEN [ok |-> TRUE, val |-> toks[i].v, next |-> i + 1]
    ELSE IF toks[i].v = "[" THEN ParseElems(toks, i + 1, <<>>)
    ELSE IF toks[i].v = "{" THEN ParseMembers(toks, i + 1, <<>>)
    ELSE Fail

\* the elements of an array up to its closing bracket
ParseElems(toks, i, acc) ==
    IF i > Len(toks) THEN Fail
    ELSE IF toks[i] = P("]") THEN [ok |-> TRUE, val |-> acc, next |-> i + 1]
    ELSE LET r == ParseValue(toks, i)
         IN  IF r.ok THEN ParseElems(toks, r.next, Append(acc, r.val)) ELSE Fail

\* the members of an object up to its closing brace; a repeated key keeps
\* its first position and takes the last value, as a Python dict does
ParseMembers(toks, i, acc) ==
    IF i > Len(toks) THEN Fail
    ELSE IF toks[i] = P("}") THEN [ok |-> TRUE, val |-> acc, next |-> i + 1]
    ELSE IF toks[i].t # "str" THEN Fail
    ELSE LET r == ParseValue(toks, i + 1)
         IN  IF r.ok THEN ParseMembers(toks, r.next, Put(acc, toks[i].v, r.val))
             ELSE Fail

\* json.load(f): the whole file must be one value
JsonLoad(toks) ==
    LET r == ParseValue(toks, 1)
    IN  IF r.ok /\ r.next = Len(toks) + 1 THEN r ELSE Fail

\* A parsed profile object as the record the rest of the model uses.
AsProfile(obj) == [k \in Keys(obj) |-> Get(obj, k)]
AsUsers(obj) == [i \in 1..Len(obj) |-> [key |-> obj[i].key, val |-> AsProfile(obj[i].val)]]

(* ------------------------------ state --------------------------------- *)
VARIABLES
    users,                  \* UserContextDB.users
    file,                   \* the content of users_file on disk
    saves,                  \* how this store's latest save_to_file ended, and
                            \* whether it succeeded right after a failed one
    supplied,               \* last non-empty argument per id and field
    ops,                    \* number of calls made so far
    ret,                    \* the latest call: its name, id argument, result
    documents,              \* SimpleRAG.documents
    conversation_history,   \* SimpleRAG.conversation_history
    client,                 \* whether SimpleRAG.client is set
    sent,                   \* the messages the latest call passed to the
                            \* completion endpoint, <<>> if it made no call
    listed,                 \* the list the caller got from list_documents
    formatted               \* a profile and what _format_user_context made of it

dbVars == <<users, file, saves, supplied, ops>>
ragVars == <<documents, conversation_history, client, sent, listed, formatted>>
vars == <<users, file, saves, supplied, ops, ret, documents, conversation_history,
          client, sent, listed, formatted>>

\* the record of a call: its name, its id / path / name argument and whether
\* it was given, whether the call raised, and what it returned: a bool
\* (ok), a str (val) or a text in pieces (text).  outcome is how the
\* completion call ended, had the sizes clear_documents found.
Call(op, id) ==
    [op |-> op, id |-> id, given |-> TRUE, raised |-> FALSE, ok |-> TRUE, val |-> "",
     text |-> <<>>, outcome |-> "none", had |-> <<0, 0>>]

Absent == [exists |-> FALSE, toks |-> <<>>]
Content(toks) == [exists |-> TRUE, toks |-> toks]

(* --------------------------- UserContextDB ---------------------------- *)
\* How a save_to_file call can end: the dump reaches the disk; open() raises
\* and the file is not touched; or open(users_file, 'w') has truncated the
\* file and the write raises, leaving nothing ("cut_all") or everything but
\* the end of the dump ("cut_tail") behind.
SaveOutcomes == {"ok", "open_fails", "cut_all", "cut_tail"}

\* save_to_file: the file it leaves
SaveToFile(us, f, outcome) ==
    CASE outcome = "ok" -> Content(JsonDump(us))
      [] outcome = "open_fails" -> f
      [] outcome = "cut_all" -> Content(<<>>)
      [] outcome = "cut_tail" ->
            LET d == JsonDump(us) IN Content(SubSeq(d, 1, Len(d) - 1))

\* save_to_file without its try / except
SaveRaises_Uncaught(outcome) == outcome # "ok"

\* whether an exception leaves save_to_file: 'except Exception' catches
\* whatever open() or json.dump raise and prints a warning
SaveRaises(outcome) == FALSE

NoSaves == [last |-> "none", recovered |-> FALSE]
Saved(sv, outcome) ==
    [last |-> outcome,
     recovered |-> outcome = "ok" /\ sv.last \in SaveOutcomes \ {"ok"}]

\* load_from_file on the empty store __init__ has just made: the users it
\* leaves.  readable = FALSE: open() or the read raises.  (Files holding
\* JSON that is not an object are not among the files of this model.)
LoadFromFile(f, readable) ==
    IF ~f.exists THEN <<>>
    ELSE IF ~readable THEN <<>>
    ELSE LET r == JsonLoad(f.toks)
         IN  IF r.ok THEN AsUsers(r.val) ELSE <<>>

\* load_from_file without its try / except
LoadRaises_Uncaught(f, readable) == f.exists /\ (~readable \/ ~JsonLoad(f.toks).ok)

\* whether an exception leaves load_from_file: 'except Exception' catches
\* whatever open() or json.load raise and prints a warning
LoadRaises(f, readable) == FALSE

DefaultName(id) == "User_" \o id

\* create_or_update_user whose update branch assigns preferences without
\* testing it
Upserted_OverwritesPrefs(us, id, name, prefs, hist) ==
    IF id \notin Keys(us)
    THEN Put(us, id, [user_id |-> id,
                      name |-> IF TruthyStr(name) THEN name.v ELSE DefaultName(id),
                      preferences |-> IF TruthyList(prefs) THEN prefs.v ELSE <<>>,
                      purchase_history |-> IF TruthyList(hist) THEN hist.v ELSE <<>>])
    ELSE LET old == Get(us, id)
         IN  Put(us, id, [user_id |-> old.user_id,
                          name |-> IF TruthyStr(name) THEN name.v ELSE old.name,
                          preferences |-> prefs.v,
                          purchase_history |-> IF TruthyList(hist) THEN hist.v ELSE old.purchase_history])

\* the dict create_or_update_user leaves in self.users
Upserted(us, id, name, prefs, hist) ==
    IF id \notin Keys(us)
    THEN Put(us, id, [user_id |-> id,
                      name |-> IF TruthyStr(name) THEN name.v ELSE DefaultName(id),
                      preferences |-> IF TruthyList(prefs) THEN prefs.v ELSE <<>>,
                      purchase_history |-> IF TruthyList(hist) THEN hist.v ELSE <<>>])
    ELSE LET old == Get(us, id)
         IN  Put(us, id, [user_id |-> old.user_id,
                          name |-> IF TruthyStr(name) THEN name.v ELSE old.name,
                          preferences |-> IF TruthyList(prefs) THEN prefs.v ELSE old.preferences,
                          purchase_history |-> IF TruthyList(hist) THEN hist.v ELSE old.purchase_history])

NoProfile == [user_id |-> "", name |-> "", preferences |-> <<>>, purchase_history |-> <<>>]
GetUser(us, id) ==
    IF id \in Keys(us) THEN Some(Get(us, id)) ELSE [some |-> FALSE, v |-> NoProfile]

\* Bookkeeping of the arguments of the upserts of one id: whether the id was
\* upserted, the last non-empty value passed for each field, and whether
\* some upsert passed an empty or omitted value for a field after a
\* non-empty one had been passed.
NoSupply == [upserted |-> FALSE, kept |-> FALSE,
             name |-> NoStr, preferences |-> None, purchase_history |-> None]
Supply(old, name, prefs, hist) ==
    [upserted |-> TRUE,
     kept |-> \/ old.kept
              \/ old.name.some /\ ~TruthyStr(name)
              \/ old.preferences.some /\ ~TruthyList(prefs)
              \/ old.purchase_history.some /\ ~TruthyList(hist),
     name |-> IF TruthyStr(name) THEN name ELSE old.name,
     preferences |-> IF TruthyList(prefs) THEN prefs ELSE old.preferences,
     purchase_history |-> IF TruthyList(hist) THEN hist ELSE old.purchase_history]

create_or_update_user(id, name, prefs, hist, outcome) ==
    /\ ops < MaxOps
    /\ users' = Upserted(users, id, name, prefs, hist)
    /\ file' = SaveToFile(users', file, outcome)
    /\ saves' = Saved(saves, outcome)
    /\ supplied' = [supplied EXCEPT ![id] = Supply(@, name, prefs, hist)]
    /\ ops' = ops + 1
    /\ ret' = [Call("create_or_update_user", id) EXCEPT !.raised = SaveRaises(outcome)]
    /\ UNCHANGED ragVars

UpsertStep ==
    \E id \in Ids, name \in NameArgs, prefs \in PrefArgs, hist \in HistArgs,
       outcome \in SaveOutcomes :
        create_or_update_user(id, name, prefs, hist, outcome)

delete_user(id, outcome) ==
    /\ ops < MaxOps
    /\ IF id \in Keys(users)
       THEN /\ users' = Del(users, id)
            /\ file' = SaveToFile(users', file, outcome)
            /\ saves' = Saved(saves, outcome)
            /\ ret' = [Call("delete_user", id) EXCEPT !.raised = SaveRaises(outcome)]
       ELSE /\ UNCHANGED <<users, file, saves>>
            /\ ret' = [Call("delete_user", id) EXCEPT !.ok = FALSE]
    /\ supplied' = [supplied EXCEPT ![id] = NoSupply]
    /\ ops' = ops + 1
    /\ UNCHANGED ragVars

DeleteStep == \E id \in Ids, outcome \in SaveOutcomes : delete_user(id, outcome)

clear_all(outcome) ==
    /\ ops < MaxOps
    /\ users' = <<>>
    /\ file' = SaveToFile(users', file, outcome)
    /\ saves' = Saved(saves, outcome)
    /\ supplied' = [id \in Ids |-> NoSupply]
    /\ ops' = ops + 1
    /\ ret' = [Call("clear_all", "") EXCEPT !.raised = SaveRaises(outcome)]
    /\ UNCHANGED ragVars

ClearAllStep == \E outcome \in SaveOutcomes : clear_all(outcome)

\* UserContextDB.__init__ on the file as it is now: a new store replaces
\* the old one
NewStore(readable) ==
    /\ ops < MaxOps
    /\ users' = LoadFromFile(file, readable)
    /\ saves' = NoSaves
    /\ supplied' = [id \in Ids |-> NoSupply]
    /\ ops' = ops + 1
    /\ ret' = [Call("__init__", "") EXCEPT !.raised = LoadRaises(file, readable),
                                          !.ok = readable]
    /\ UNCHANGED <<file, ragVars>>

NewStoreStep ==
    \E readable \in (IF file.exists THEN BOOLEAN ELSE {TRUE}) : NewStore(readable)

(* ------------------------------ SimpleRAG ----------------------------- *)
\* A string built from pieces is the sequence of its pieces.
Paths == {"a.pdf", "dir/a.pdf", "b.pdf"}
DocNames == {"a.pdf", "b.pdf", "c.pdf"}
Queries == {"q1", "q2"}
UserIdArgs == {NoStr, Some(""), Some("u1"), Some("u2"), Some("u3")}

\* os.path.basename
Basename(path) == IF path = "dir/a.pdf" THEN "a.pdf" ELSE path

\* what page.extract_text() returns for the pages of the file at a path
PagesOf(path) ==
    CASE path = "a.pdf" -> <<Some("T")>>
      [] path = "dir/a.pdf" -> <<Some("U"), NoStr>>
      [] path = "b.pdf" -> <<Some("V")>>

\* len() of the strings of this model
StrLen(str) ==
    CASE str \in {"a.pdf", "b.pdf"} -> 5
      [] str \in {"T", "U", "V"} -> 1
      [] str = "" -> 0

\* f"\n--- {pdf_name} Page {page_num} ---\n{page_text}"
PageChunk(name, n, page) ==
    <<"\n--- ", name, " Page ", ToString(n), " ---\n", IF page.some THEN page.v ELSE "">>
PageChunkLen(name, page) ==
    5 + StrLen(name) + 6 + 1 + 5 + (IF page.some THEN StrLen(page.v) ELSE 0)

RECURSIVE SumSeq(_)
SumSeq(ns) == IF ns = <<>> THEN 0 ELSE Head(ns) + SumSeq(Tail(ns))

\* the doc_entry load_pdf appends
DocEntry(path) ==
    LET name == Basename(path)
        pages == PagesOf(path)
    IN  [name |-> name,
         text |-> Flatten([n \in 1..Len(pages) |-> PageChunk(name, n, pages[n])]),
         pages |-> Len(pages),
         char_count |-> SumSeq([n \in 1..Len(pages) |-> PageChunkLen(name, pages[n])])]

\* sep.join(items) for items that are sequences of pieces
RECURSIVE Join(_, _)
Join(items, sep) ==
    IF items = <<>> THEN <<>>
    ELSE IF Len(items) = 1 THEN items[1]
    ELSE items[1] \o <<sep>> \o Join(Tail(items), sep)

\* lst[:n]
LastN_FirstN(lst, n) == IF Len(lst) <= n THEN lst ELSE SubSeq(lst, 1, n)

\* lst[-n:]
LastN(lst, n) == IF Len(lst) <= n THEN lst ELSE SubSeq(lst, Len(lst) - n + 1, Len(lst))

HistoryShown == 3

\* dict.get(key) is truthy
HasTruthy(p, key) == key \in DOMAIN p /\ p[key] # <<>>

\* _format_user_context
FormatUserContext(p) ==
    LET line1 == <<"Name: ", IF "name" \in DOMAIN p THEN p.name ELSE "Unknown">>
        line2 == IF HasTruthy(p, "preferences")
                 THEN <<<<"Preferences: ">>
                        \o Join([i \in 1..Len(p.preferences) |-> <<p.preferences[i]>>], ", ")>>
                 ELSE <<>>
        line3 == IF HasTruthy(p, "purchase_history")
                 THEN LET h == LastN(p.purchase_history, HistoryShown)
                      IN  <<<<"Recent interactions: ">>
                            \o Join([i \in 1..Len(h) |-> <<h[i]>>], ", ")>>
                 ELSE <<>>
    IN  Join(<<line1>> \o line2 \o line3, "\n")

\* _format_user_context called on a profile of its own
NotFormatted == [done |-> FALSE, profile |-> NoProfile, out |-> <<>>]

format_user_context ==
    /\ ~formatted.done
    /\ formatted' = [formatted EXCEPT !.done = TRUE,
                                      !.out = FormatUserContext(formatted.profile)]
    /\ ret' = Call("_format_user_context", formatted.profile.user_id)
    /\ UNCHANGED <<documents, conversation_history, client, sent, listed, dbVars>>

SystemPrompt == "You are a helpful, personalized assistant. ..."
NoPdfMsg == "No PDF loaded. Please upload a PDF first."
NotConfiguredMsg == "Groq client not configured. ..."
ErrorPrefix == "Error generating response: "
CallErrors == {"timeout"}

\* generate_response with the question added before the user context
Messages_QuestionBeforeContext(docs, us, query, user_id) ==
    LET context == Join([i \in 1..Len(docs) |-> docs[i].text], "\n\n")
        user_context_str ==
            IF TruthyStr(user_id)
            THEN IF GetUser(us, user_id.v).some
                 THEN FormatUserContext(GetUser(us, user_id.v).v)
                 ELSE <<"User ID: ", user_id.v, " (no profile data available)">>
            ELSE <<>>
        user_message ==
            <<"Document context:\n">> \o context
            \o <<"\n\nQuestion: ", query>>
            \o (IF user_context_str # <<>>
                THEN <<"\n\nUser Context:\n">> \o user_context_str ELSE <<>>)
    IN  <<[role |-> "system", content |-> <<SystemPrompt>>],
          [role |-> "user", content |-> user_message]>>

\* the messages generate_response builds for a non-empty collection
Messages(docs, us, query, user_id) ==
    LET context == Join([i \in 1..Len(docs) |-> docs[i].text], "\n\n")
        user_context_str ==
            IF TruthyStr(user_id)
            THEN IF GetUser(us, user_id.v).some
                 THEN FormatUserContext(GetUser(us, user_id.v).v)
                 ELSE <<"User ID: ", user_id.v, " (no profile data available)">>
            ELSE <<>>
        user_message ==
            <<"Document context:\n">> \o context
            \o (IF user_context_str # <<>>
                THEN <<"\n\nUser Context:\n">> \o user_context_str ELSE <<>>)
            \o <<"\n\nQuestion: ", query>>
    IN  <<[role |-> "system", content |-> <<SystemPrompt>>],
          [role |-> "user", content |-> user_message]>>

\* How the completion call ends if it is made: a response with choices[0].message
\* .content; a response of another shape, answered with its text or str();
\* or an exception (of the call, or of str() on the odd response).
CallOutcomes == {"ok", "odd_shape", "fails"}

\* generate_response with the except clause around the call left out
Completion_Uncaught(msgs, query, outcome) ==
    CASE outcome = "ok" ->
            [val |-> "A", raised |-> FALSE, sent |-> msgs, outcome |-> outcome,
             turns |-> <<[role |-> "user", content |-> query],
                         [role |-> "assistant", content |-> "A"]>>]
      [] outcome = "odd_shape" ->
            [val |-> "R", raised |-> FALSE, sent |-> msgs, outcome |-> outcome,
             turns |-> <<[role |-> "user", content |-> query],
                         [role |-> "assistant", content |-> "R"]>>]
      [] outcome = "fails" ->
            [val |-> "", raised |-> TRUE, sent |-> msgs, outcome |-> outcome,
             turns |-> <<[role |-> "user", content |-> query]>>]

\* generate_response with the error text of a failed call recorded as the
\* assistant's turn
Completion_ErrorAsTurn(msgs, query, outcome) ==
    CASE outcome = "ok" ->
            [val |-> "A", raised |-> FALSE, sent |-> msgs, outcome |-> outcome,
             turns |-> <<[role |-> "user", content |-> query],
                         [role |-> "assistant", content |-> "A"]>>]
      [] outcome = "odd_shape" ->
            [val |-> "R", raised |-> FALSE, sent |-> msgs, outcome |-> outcome,
             turns |-> <<[role |-> "user", content |-> query],
                         [role |-> "assistant", content |-> "R"]>>]
      [] outcome = "fails" ->
            [val |-> ErrorPrefix \o (CHOOSE e \in CallErrors : TRUE), raised |-> FALSE,
             sent |-> msgs, outcome |-> outcome,
             turns |-> <<[role |-> "user", content |-> query],
                         [role |-> "assistant",
                          content |-> ErrorPrefix \o (CHOOSE e \in CallErrors : TRUE)]>>]

\* generate_response from the call on: the try block of lines 237-253
Completion(msgs, query, outcome) ==
    CASE outcome = "ok" ->
            [val |-> "A", raised |-> FALSE, sent |-> msgs, outcome |-> outcome,
             turns |-> <<[role |-> "user", content |-> query],
                         [role |-> "assistant", content |-> "A"]>>]
      [] outcome = "odd_shape" ->
            [val |-> "R", raised |-> FALSE, sent |-> msgs, outcome |-> outcome,
             turns |-> <<[role |-> "user", content |-> query],
                         [role |-> "assistant", content |-> "R"]>>]
      [] outcome = "fails" ->
            [val |-> ErrorPrefix \o (CHOOSE e \in CallErrors : TRUE), raised |-> FALSE,
             sent |-> msgs, outcome |-> outcome,
             turns |-> <<[role |-> "user", content |-> query]>>]

\* generate_response without the test of self.documents
Generated_NoDocTest(docs, us, cl, query, user_id, outcome) ==
    IF ~cl
    THEN [val |-> NotConfiguredMsg, raised |-> FALSE, sent |-> <<>>, outcome |-> "none",
          turns |-> <<[role |-> "user", content |-> query]>>]
    ELSE Completion(Messages(docs, us, query, user_id), query, outcome)

\* generate_response without the test of self.client
Generated_NoClientTest(docs, us, cl, query, user_id, outcome) ==
    IF docs = <<>>
    THEN [val |-> NoPdfMsg, raised |-> FALSE, sent |-> <<>>, outcome |-> "none",
          turns |-> <<>>]
    ELSE Completion(Messages(docs, us, query, user_id), query, outcome)

\* generate_response: what it returns, whether it raises, the messages it
\* sends, how the call ended and the turns it appends
Generated(docs, us, cl, query, user_id, outcome) ==
    IF docs = <<>>
    THEN [val |-> NoPdfMsg, raised |-> FALSE, sent |-> <<>>, outcome |-> "none",
          turns |-> <<>>]
    ELSE IF ~cl
    THEN [val |-> NotConfiguredMsg, raised |-> FALSE, sent |-> <<>>, outcome |-> "none",
          turns |-> <<[role |-> "user", content |-> query]>>]
    ELSE Completion(Messages(docs, us, query, user_id), query, outcome)

generate_response(query, user_id, outcome) ==
    LET g == Generated(documents, users, client, query, user_id, outcome)
    IN  /\ Len(conversation_history) + Len(g.turns) <= MaxTurns
        /\ conversation_history' = conversation_history \o g.turns
        /\ sent' = g.sent
        /\ ret' = [Call("generate_response", user_id.v) EXCEPT
                       !.given = user_id.some, !.raised = g.raised, !.val = g.val,
                       !.text = <<query>>, !.outcome = g.outcome]
        /\ UNCHANGED <<documents, client, listed, formatted, dbVars>>

GenerateStep ==
    \E query \in Queries, user_id \in UserIdArgs, outcome \in CallOutcomes :
        generate_response(query, user_id, outcome)

\* load_pdf; readable = FALSE: open() or PdfReader raise, which is caught
load_pdf(path, readable) ==
    /\ IF readable
       THEN /\ Len(documents) < MaxDocs
            /\ documents' = Append(documents, DocEntry(path))
            /\ ret' = [Call("load_pdf", path) EXCEPT !.text = DocEntry(path).text]
       ELSE /\ documents' = documents
            /\ ret' = [Call("load_pdf", path) EXCEPT !.ok = FALSE]
    /\ sent' = <<>>
    /\ UNCHANGED <<conversation_history, client, listed, formatted, dbVars>>

LoadPdfStep == \E path \in Paths, readable \in BOOLEAN : load_pdf(path, readable)

NamesOf(docs) == {docs[i].name : i \in 1..Len(docs)}

\* remove_document that pops the last document when no name matches
Removed_PopsLast(docs, name) ==
    IF name \in NamesOf(docs)
    THEN LET i == CHOOSE j \in 1..Len(docs) :
                    docs[j].name = name /\ \A k \in 1..(j - 1) : docs[k].name # name
         IN  [found |-> TRUE, docs |-> SubSeq(docs, 1, i - 1) \o SubSeq(docs, i + 1, Len(docs))]
    ELSE [found |-> FALSE, docs |-> SubSeq(docs, 1, Len(docs) - 1)]

\* remove_document that drops every document of the name
Removed_AllMatches(docs, name) ==
    [found |-> name \in NamesOf(docs),
     docs |-> SelectSeq(docs, LAMBDA d : d.name # name)]

\* the loop of remove_document: the list it leaves and what it returns
Removed(docs, name) ==
    IF name \in NamesOf(docs)
    THEN LET i == CHOOSE j \in 1..Len(docs) :
                    docs[j].name = name /\ \A k \in 1..(j - 1) : docs[k].name # name
         IN  [found |-> TRUE, docs |-> SubSeq(docs, 1, i - 1) \o SubSeq(docs, i + 1, Len(docs))]
    ELSE [found |-> FALSE, docs |-> docs]

remove_document(name) ==
    /\ documents' = Removed(documents, name).docs
    /\ ret' = [Call("remove_document", name) EXCEPT
                   !.ok = Removed(documents, name).found]
    /\ sent' = <<>>
    /\ UNCHANGED <<conversation_history, client, listed, formatted, dbVars>>

RemoveStep == \E name \in DocNames : remove_document(name)

\* list_documents returns self.documents itself: the caller holds the list
\* object the facade holds (live), until the facade binds self.documents to
\* another list; from then on the caller's list keeps the items it had
\* (docs).  snap is what the list held when list_documents returned it.
NotListed == [some |-> FALSE, live |-> FALSE, docs |-> <<>>, snap |-> <<>>]

\* the items of the list the caller holds
Listed == IF listed.live THEN documents ELSE listed.docs

\* the caller's list after self.documents is bound to a new list
Detached(l, docs) == IF l.live THEN [l EXCEPT !.live = FALSE, !.docs = docs] ELSE l

list_documents ==
    /\ listed' = [some |-> TRUE, live |-> TRUE, docs |-> <<>>, snap |-> documents]
    /\ ret' = Call("list_documents", "")
    /\ sent' = <<>>
    /\ UNCHANGED <<documents, conversation_history, client, formatted, dbVars>>

\* clear_documents that forgets the conversation history
clear_documents_KeepsHistory ==
    /\ documents' = <<>>
    /\ conversation_history' = conversation_history
    /\ ret' = [Call("clear_documents", "") EXCEPT
                   !.had = <<Len(documents), Len(conversation_history)>>]
    /\ sent' = <<>>
    /\ listed' = Detached(listed, documents)
    /\ UNCHANGED <<client, formatted, dbVars>>

\* clear_documents
clear_documents ==
    /\ documents' = <<>>
    /\ conversation_history' = <<>>
    /\ ret' = [Call("clear_documents", "") EXCEPT
                   !.had = <<Len(documents), Len(conversation_history)>>]
    /\ sent' = <<>>
    /\ listed' = Detached(listed, documents)
    /\ UNCHANGED <<client, formatted, dbVars>>

\* SimpleRAG.__init__: how the Groq client comes out
ClientConfigs == {"no_package", "no_api_key", "constructor_fails", "ok"}
ClientOf(config) == config = "ok"

(* ------------------------- specifications ----------------------------- *)
\* a profile store on its own: no facade around it
NoFacade ==
    /\ documents = <<>>
    /\ conversation_history = <<>>
    /\ client = FALSE
    /\ sent = <<>>
    /\ listed = NotListed
    /\ formatted = NotFormatted

\* only upserts, on a store constructed where no file is
InitUpsert ==
    /\ users = <<>>
    /\ file = Absent
    /\ saves = NoSaves
    /\ supplied = [id \in Ids |-> NoSupply]
    /\ ops = 1
    /\ ret = Call("__init__", "")
    /\ NoFacade

NextUpsert == UpsertStep

SpecUpsert == InitUpsert /\ [][NextUpsert]_vars

\* Files a store can find at construction: none, an empty one, dumps written
\* by earlier runs and one of them cut short by a failed write.
SampleAnn == [user_id |-> "u1", name |-> "Ann", preferences |-> <<"x", "y">>,
              purchase_history |-> <<"a", "b", "c", "d">>]
SampleBob == [user_id |-> "u2", name |-> "User_u2", preferences |-> <<>>,
              purchase_history |-> <<>>]
SampleUsers == <<[key |-> "u1", val |-> SampleAnn], [key |-> "u2", val |-> SampleBob]>>
InitFiles ==
    {Absent, Content(<<>>), Content(JsonDump(SampleUsers)),
     Content(SubSeq(JsonDump(SampleUsers), 1, Len(JsonDump(SampleUsers)) - 1))}

\* the profile store: the state after UserContextDB.__init__, which is the
\* first call on the file
InitDB ==
    /\ file \in InitFiles
    /\ \E readable \in (IF file.exists THEN BOOLEAN ELSE {TRUE}) :
          /\ users = LoadFromFile(file, readable)
          /\ ret = [Call("__init__", "") EXCEPT !.raised = LoadRaises(file, readable),
                                                !.ok = readable]
    /\ saves = NoSaves
    /\ supplied = [id \in Ids |-> NoSupply]
    /\ ops = 1
    /\ NoFacade

NextDB ==
    \/ UpsertStep
    \/ DeleteStep
    \/ ClearAllStep
    \/ NewStoreStep

SpecDB == InitDB /\ [][NextDB]_vars

\* the facade: the state after SimpleRAG.__init__, which constructs its
\* store on the users file
InitRAG ==
    /\ file \in {Absent, Content(JsonDump(SampleUsers))}
    /\ users = LoadFromFile(file, TRUE)
    /\ saves = NoSaves
    /\ supplied = [id \in Ids |-> NoSupply]
    /\ ops = 1
    /\ ret = Call("__init__", "")
    /\ documents = <<>>
    /\ conversation_history = <<>>
    /\ \E config \in ClientConfigs : client = ClientOf(config)
    /\ sent = <<>>
    /\ listed = NotListed
    /\ formatted = NotFormatted

NextRAG ==
    \/ LoadPdfStep
    \/ GenerateStep
    \/ RemoveStep
    \/ clear_documents

SpecRAG == InitRAG /\ [][NextRAG]_vars

\* the document collection and a caller that keeps what list_documents
\* returned; the facade was constructed without a users file and a client
InitList == InitRAG /\ file = Absent /\ ~client

NextList ==
    \/ LoadPdfStep
    \/ RemoveStep
    \/ clear_documents
    \/ list_documents

SpecList == InitList /\ [][NextList]_vars

\* _format_user_context on any profile: a name, no or two preferences and
\* a purchase history of up to MaxHist entries
RECURSIVE SeqsUpTo(_, _)
SeqsUpTo(items, n) ==
    IF n = 0 THEN {<<>>}
    ELSE LET shorter == SeqsUpTo(items, n - 1)
         IN  shorter \cup {Append(q, x) : q \in shorter, x \in items}

HistItems == {"a", "b", "c"}
FormatProfiles ==
    {[user_id |-> "u1", name |-> n, preferences |-> pr, purchase_history |-> h] :
        n \in Names, pr \in {<<>>} \cup PrefLists, h \in SeqsUpTo(HistItems, MaxHist)}

NextFormat == format_user_context

InitFormat ==
    /\ users = <<>>
    /\ file = Absent
    /\ saves = NoSaves
    /\ supplied = [id \in Ids |-> NoSupply]
    /\ ops = 1
    /\ ret = Call("__init__", "")
    /\ documents = <<>>
    /\ conversation_history = <<>>
    /\ client = FALSE
    /\ sent = <<>>
    /\ listed = NotListed
    /\ \E p \in FormatProfiles :
          formatted = [done |-> FALSE, profile |-> p, out |-> <<>>]

SpecFormat == InitFormat /\ [][NextFormat]_vars

(* ------------------------------ claims -------------------------------- *)
Fields == {"name", "preferences", "purchase_history"}

\* every field of the stored profile for which a non-empty value was passed
\* holds the last such value
MatchesSupplied(us, sup) ==
    \A id \in Ids :
        sup[id].upserted =>
            /\ id \in Keys(us)
            /\ \A f \in Fields : sup[id][f].some => GetUser(us, id).v[f] = sup[id][f].v

\* C1: after any sequence of create_or_update_user calls from an empty
\* store, get_user(id) of every upserted id returns a profile whose name,
\* preferences and purchase_history each equal the last non-empty value
\* passed for that field; an empty or omitted value never overwrites.
C1_MergeKeepsLastNonEmpty == MatchesSupplied(users, supplied)

\* the second upsert of an id passed a new name and no preferences: the
\* name is the new one, the preferences are the old ones
C1_Witness ==
    /\ ret.op = "create_or_update_user"
    /\ supplied[ret.id].kept
    /\ supplied[ret.id].name = Some("Bob")
    /\ GetUser(users, ret.id).v.name = "Bob"
    /\ GetUser(users, ret.id).v.preferences = <<"x", "y">>

\* C2: when the store's latest save succeeded, a new UserContextDB on the
\* same file loads exactly the in-memory mapping: the same ids in the same
\* order, each with the same name, preferences and purchase_history.
C2_RoundTrip == saves.last = "ok" => LoadFromFile(file, TRUE) = users

\* two profiles, the later id first, one with a two-element list, written
\* by a successful save
C2_Witness ==
    /\ saves.last = "ok"
    /\ ret.op = "create_or_update_user"
    /\ Len(users) = 2
    /\ users[1].key = "u2"
    /\ Len(users[2].val.preferences) = 2
    /\ file = Content(JsonDump(users))

\* a step of a call that reached save_to_file
SavingStep ==
    /\ ops' = ops + 1
    /\ \/ ret'.op \in {"create_or_update_user", "clear_all"}
       \/ ret'.op = "delete_user" /\ ret'.ok
FailedSave == SavingStep /\ saves'.last # "ok"

\* the in-memory mapping after the call shows what the call was to do
ReflectsCall ==
    CASE ret'.op = "create_or_update_user" ->
            /\ ret'.id \in Keys(users')
            /\ MatchesSupplied(users', supplied')
      [] ret'.op = "delete_user" -> ret'.id \notin Keys(users')
      [] ret'.op = "clear_all" -> users' = <<>>

\* the next successful save writes the whole in-memory mapping, the
\* arguments passed while saves were failing included
WholeMappingWritten ==
    SavingStep /\ saves'.last = "ok" =>
        /\ file' = Content(JsonDump(users'))
        /\ MatchesSupplied(users', supplied')

IsPrefix(a, b) == Len(a) <= Len(b) /\ a = SubSeq(b, 1, Len(a))

\* C3 as stated: when a save fails during create_or_update_user, delete_user
\* or clear_all, the call does not raise, the in-memory mapping reflects the
\* change and the file keeps its previous content; the next successful save
\* writes the whole in-memory mapping.
C3_FileKeptOnFailedSave ==
    [][/\ FailedSave => ~ret'.raised /\ ReflectsCall /\ file' = file
       /\ WholeMappingWritten]_vars

\* C3 amended: when a save fails, the call does not raise, the in-memory
\* mapping reflects the change, and the file either keeps its previous
\* content (open failed) or has lost it and holds what was written of the
\* new dump before the failure (the write failed after open truncated the
\* file); the next successful save writes the whole in-memory mapping.
C3_FailedSaveLeavesOldOrCutFile ==
    [][/\ FailedSave =>
            /\ ~ret'.raised
            /\ ReflectsCall
            /\ \/ file' = file
               \/ /\ file'.exists
                  /\ IsPrefix(file'.toks, JsonDump(users'))
       /\ WholeMappingWritten]_vars

\* a save succeeded right after a failed one and the file holds both
\* profiles of the store
C3_Witness ==
    /\ saves.recovered
    /\ Len(users) = 2
    /\ file = Content(JsonDump(users))

\* C4: when the file exists but cannot be read or parsed at construction,
\* construction does not raise, the store starts empty and the file is
\* left as it was.
C4_FailedLoadStartsEmpty ==
    /\ [](ret.op = "__init__" /\ file.exists /\ (~ret.ok \/ ~JsonLoad(file.toks).ok)
            => users = <<>> /\ ~ret.raised)
    /\ [][ret'.op = "__init__" => file' = file]_vars

\* a store constructed on the cut file a failed write left behind
C4_Witness ==
    /\ ret.op = "__init__"
    /\ ops > 1
    /\ file.exists
    /\ file.toks # <<>>
    /\ ret.ok
    /\ ~JsonLoad(file.toks).ok
    /\ users = <<>>

\* C5: delete_user(id) of a stored id removes exactly that profile, saves
\* and returns true; of an id not stored it returns false and leaves the
\* in-memory mapping as it was.
C5_DeleteRemovesExactlyOne ==
    [][ret'.op = "delete_user" /\ ops' = ops + 1 =>
        IF ret'.id \in Keys(users)
        THEN /\ ret'.ok
             /\ Keys(users') = Keys(users) \ {ret'.id}
             /\ \A k \in Keys(users') : Get(users', k) = Get(users, k)
             /\ Len(users') = Len(users) - 1
             /\ saves'.last = "ok" => file' = Content(JsonDump(users'))
        ELSE /\ ~ret'.ok
             /\ users' = users]_vars

\* the first of two stored profiles was deleted and the other one is what
\* the store and the file hold
C5_Witness ==
    /\ ret.op = "delete_user"
    /\ ret.ok
    /\ ret.id = "u1"
    /\ Keys(users) = {"u2"}
    /\ saves.last = "ok"
    /\ LoadFromFile(file, TRUE) = users

\* C6: generate_response on an empty document collection returns the fixed
\* no-document message for every query and user_id and makes no completion
\* call.
C6_NoDocumentsShortCircuit ==
    [][ret'.op = "generate_response" /\ documents = <<>> =>
        /\ ret'.val = NoPdfMsg
        /\ ~ret'.raised
        /\ sent' = <<>>
        /\ conversation_history' = conversation_history]_vars

\* asked for a known user with a client configured, after the only document
\* was removed
C6_Witness ==
    /\ ret.op = "generate_response"
    /\ documents = <<>>
    /\ client
    /\ ret.given
    /\ ret.id = "u1"
    /\ GetUser(users, "u1").some
    /\ ret.val = NoPdfMsg
    /\ sent = <<>>

\* C7: without a client, generate_response on a non-empty collection
\* returns the fixed configuration guidance and makes no completion call.
C7_NoClientGuidance ==
    [][ret'.op = "generate_response" /\ documents # <<>> /\ ~client =>
        /\ ret'.val = NotConfiguredMsg
        /\ ~ret'.raised
        /\ sent' = <<>>]_vars

\* asked with two documents loaded and no client
C7_Witness ==
    /\ ret.op = "generate_response"
    /\ Len(documents) = 2
    /\ ~client
    /\ ret.val = NotConfiguredMsg
    /\ sent = <<>>

\* C8: when the completion call fails, generate_response returns an error
\* string; nothing raised by the call leaves generate_response.
C8_CallFailureReturned ==
    [][ret'.op = "generate_response" =>
        /\ ~ret'.raised
        /\ ret'.outcome = "fails" =>
              /\ ret'.val \in {ErrorPrefix \o e : e \in CallErrors}
              /\ sent' # <<>>]_vars

\* a call that was made and failed
C8_Witness ==
    /\ ret.op = "generate_response"
    /\ ret.outcome = "fails"
    /\ client
    /\ documents # <<>>
    /\ Len(sent) = 2
    /\ ret.val = ErrorPrefix \o "timeout"

\* C9: clear_documents empties the document collection and the conversation
\* history, whatever they held, and leaves the profile store as it was.
C9_ClearEmptiesBoth ==
    [][ret'.op = "clear_documents" =>
        /\ documents' = <<>>
        /\ conversation_history' = <<>>
        /\ users' = users
        /\ file' = file]_vars

\* two documents and two turns were cleared, beside a store of two profiles
C9_Witness ==
    /\ ret.op = "clear_documents"
    /\ ret.had = <<2, 2>>
    /\ documents = <<>>
    /\ conversation_history = <<>>
    /\ Len(users) = 2

\* C10: remove_document(name) with a name no loaded document has returns
\* false and leaves the collection as it was, in length and order.
C10_RemoveUnknownIsNoOp ==
    [][ret'.op = "remove_document" /\ ret'.id \notin NamesOf(documents) =>
        /\ ~ret'.ok
        /\ documents' = documents]_vars

\* a name that is not among two loaded documents was asked to be removed
C10_Witness ==
    /\ ret.op = "remove_document"
    /\ ~ret.ok
    /\ Len(documents) = 2
    /\ ret.id \notin NamesOf(documents)

\* C11: remove_document(name), when documents share the name, removes exactly
\* one document, the earliest loaded of that name, returns true and keeps
\* every other document, later duplicates included, in its relative order.
C11_RemoveFirstOfName ==
    [][ret'.op = "remove_document" /\ ret'.id \in NamesOf(documents) =>
        /\ ret'.ok
        /\ Len(documents') = Len(documents) - 1
        /\ \E i \in 1..Len(documents) :
              /\ documents[i].name = ret'.id
              /\ \A k \in 1..(i - 1) :
                    documents[k].name # ret'.id /\ documents'[k] = documents[k]
              /\ \A k \in i..Len(documents') : documents'[k] = documents[k + 1]]_vars

\* of three documents, the first and the last named a.pdf, the first was
\* removed and the later duplicate is still there, behind b.pdf
C11_Witness ==
    /\ ret.op = "remove_document"
    /\ ret.ok
    /\ ret.id = "a.pdf"
    /\ documents = <<DocEntry("b.pdf"), DocEntry("dir/a.pdf")>>

\* C12: list_documents returns a snapshot of the collection in load order:
\* the sequence the caller got is not changed by a later load_pdf,
\* remove_document or clear_documents.
C12_ListIsSnapshot == listed.some => Listed = listed.snap

\* the history line as the claim words it
HistoryLabel == "Recent interactions: "
HistoryLine(h) ==
    LET n == Len(h)
    IN  CASE n = 1 -> <<HistoryLabel, h[1]>>
          [] n = 2 -> <<HistoryLabel, h[1], ", ", h[2]>>
          [] n >= 3 -> <<HistoryLabel, h[n - 2], ", ", h[n - 1], ", ", h[n]>>

\* C13: the history line of the user context holds the last three history
\* entries, in their order, joined with ", ", when the profile has more
\* than three; all of them when it has three or fewer; and there is no
\* history line when it has none.
C13_HistoryLineLastThree ==
    formatted.done =>
        LET h == formatted.profile.purchase_history
            out == formatted.out
        IN  IF h = <<>>
            THEN \A i \in 1..Len(out) : out[i] # HistoryLabel
            ELSE LET line == HistoryLine(h)
                     at == Len(out) - Len(line)
                 IN  /\ at >= 1
                     /\ SubSeq(out, at + 1, Len(out)) = line
                     /\ out[at] = "\n"
                     /\ \A i \in 1..at : out[i] # HistoryLabel

\* a profile of five entries was formatted: the line holds the last three
C13_Witness ==
    /\ formatted.done
    /\ formatted.profile.purchase_history = <<"a", "b", "c", "a", "b">>
    /\ formatted.profile.preferences = <<"x", "y">>
    /\ formatted.out = <<"Name: ", "Ann", "\n", "Preferences: ", "x", ", ", "y", "\n",
                         "Recent interactions: ", "c", ", ", "a", ", ", "b">>

\* the positions of a piece in a text
At(piece, text) == {i \in 1..Len(text) : text[i] = piece}

Least(set) == CHOOSE i \in set : \A j \in set : i <= j

\* the parts occur in the text from position `from` on, one after another
RECURSIVE InOrder(_, _, _)
InOrder(parts, text, from) ==
    IF parts = <<>> THEN TRUE
    ELSE LET n == Len(parts[1])
             found == {i \in from..(Len(text) - n + 1) :
                          SubSeq(text, i, i + n - 1) = parts[1]}
         IN  /\ found # {}
             /\ InOrder(Tail(parts), text, Least(found) + n)

ContextHeader == "\n\nUser Context:\n"
QuestionHeader == "\n\nQuestion: "

\* what the claim names of a profile: name, preferences, last three entries
ProfileParts(prof) ==
    LET h == prof.purchase_history
        shown == IF Len(h) > 3 THEN SubSeq(h, Len(h) - 2, Len(h)) ELSE h
    IN  <<<<prof.name>>>>
        \o [i \in 1..Len(prof.preferences) |-> <<prof.preferences[i]>>]
        \o [i \in 1..Len(shown) |-> <<shown[i]>>]

\* the history entries the context leaves out
Dropped(prof) ==
    LET h == prof.purchase_history
    IN  {h[i] : i \in 1..(Len(h) - 3)}

\* C14: for a non-empty collection the messages are two entries, the system
\* instruction and then the user payload; the payload holds the texts of
\* the loaded documents in load order, then the user-context block (name,
\* preferences and last three history entries of the profile, or the
\* no-profile placeholder for an id without profile, or nothing when no id
\* is given), then the question itself.
C14_MessagesLayout ==
    [][ret'.op = "generate_response" /\ sent' # <<>> =>
        /\ documents # <<>>
        /\ Len(sent') = 2
        /\ sent'[1] = [role |-> "system", content |-> <<SystemPrompt>>]
        /\ sent'[2].role = "user"
        /\ LET c == sent'[2].content
               id == ret'.id
               hasId == ret'.given /\ id # ""
               q == At(QuestionHeader, c)
               u == At(ContextHeader, c)
               docsEnd == IF hasId THEN Least(u) ELSE Least(q)
           IN  /\ q = {Len(c) - 1}
               /\ <<c[Len(c)]>> = ret'.text
               /\ IF hasId THEN Cardinality(u) = 1 /\ Least(u) < Least(q) ELSE u = {}
               /\ InOrder([i \in 1..Len(documents) |-> documents[i].text],
                          SubSeq(c, 1, docsEnd - 1), 1)
               /\ hasId =>
                     LET block == SubSeq(c, Least(u) + 1, Least(q) - 1)
                     IN  IF id \in Keys(users)
                         THEN /\ InOrder(ProfileParts(Get(users, id)), block, 1)
                              /\ \A i \in 1..Len(block) :
                                    block[i] \notin Dropped(Get(users, id))
                         ELSE block = <<"User ID: ", id, " (no profile data available)">>
    ]_vars

\* two documents are loaded and the question of a user with four history
\* entries was sent
C14_Witness ==
    /\ ret.op = "generate_response" /\ ret.id = "u1" /\ ret.given
    /\ Len(documents) = 2 /\ documents[1] # documents[2]
    /\ "u1" \in Keys(users) /\ Len(Get(users, "u1").purchase_history) = 4
    /\ Len(sent) = 2
    /\ sent[2].content[Len(sent[2].content)] = "q2"

\* every assistant turn comes right after a user turn
Paired(h) ==
    \A i \in 1..Len(h) :
        h[i].role = "assistant" => i > 1 /\ h[i - 1].role = "user"

CountRole(h, role) == Cardinality({i \in 1..Len(h) : h[i].role = role})

UserTurn(q) == [role |-> "user", content |-> q]

\* C15: in every state reached by load_pdf, remove_document,
\* clear_documents and generate_response every assistant turn of the
\* history comes right after a user turn, so assistant turns never outnumber
\* user turns; generate_response appends the user turn and an assistant
\* turn when the completion call succeeds, the user turn alone when no
\* client is configured or the call fails, and nothing when no document is
\* loaded.
C15_AssistantFollowsUser ==
    /\ [](/\ Paired(conversation_history)
          /\ CountRole(conversation_history, "assistant")
                <= CountRole(conversation_history, "user"))
    /\ [][ret'.op = "generate_response" =>
            \E q \in Queries :
                /\ ret'.text = <<q>>
                /\ conversation_history' =
                      IF documents = <<>> THEN conversation_history
                      ELSE IF ~client \/ ret'.outcome = "fails"
                      THEN Append(conversation_history, UserTurn(q))
                      ELSE conversation_history
                           \o <<UserTurn(q), [role |-> "assistant", content |-> ret'.val]>>
       ]_vars

\* a call was answered: the history is the question and then the answer
C15_Witness ==
    /\ ret.op = "generate_response" /\ ret.outcome = "ok"
    /\ conversation_history = <<UserTurn("q1"), [role |-> "assistant", content |-> "A"]>>

====
